---- MODULE Spec2Model ----
(***************************************************************************)
(* The resilient API-client runtime of the Backstage IDP Python SDK:       *)
(* CircuitBreaker, RateLimiter and HttpClient (client/http_client.py),     *)
(* AuthManager (auth/auth_manager.py) and the error classes                *)
(* (exceptions.py).                                                        *)
(*                                                                         *)
(* Time is a number of seconds (time.time(), datetime.utcnow()).  asyncio  *)
(* runs one coroutine at a time, so every action below is the code between *)
(* two awaits of one coroutine.                                            *)
(***************************************************************************)
EXTENDS Integers, Sequences, FiniteSets, TLC

VARIABLES
    now,              \* the clock: time.time() / datetime.utcnow(), in seconds
    circuit_breaker,  \* HttpClient.circuit_breaker: state, failure_count, last_failure_time
    cb_call,          \* per caller: its CircuitBreaker.call in progress
    cb_last,          \* the last thing that happened to the breaker (observation)
    cb_consec,        \* wrapped invocations that raised in a row (observation)
    rate_limiter,     \* HttpClient.rate_limiter: tokens (in 1/TokenScale), last_update
    lock_holder,      \* RateLimiter.lock: the caller inside "async with", 0 when free
    lock_waiters,     \* RateLimiter.lock: the callers queued on it, first come first
    rl_call,          \* per caller: its RateLimiter.acquire in progress
    admit_log,        \* the times at which acquire() returned (observation)
    rl_started,       \* acquire() calls started so far (observation)
    token_info,       \* AuthManager._token_info
    refresh_task,     \* AuthManager._refresh_task: the _auto_refresh task
    closed,           \* AuthManager.close() has returned
    close_call,       \* AuthManager.close() in progress: past its cancel, awaiting
    refresh_call,     \* per caller: its ensure_valid_token / refresh_token in progress
    installed_at,     \* when the stored expiring token was assigned (observation)
    auto_started,     \* the task has started its exchange for the stored token (observation)
    sets_done,        \* set_tokens() calls of the application so far (observation)
    exchanges,        \* POSTs to /auth/refresh so far (observation)
    last_exchange,    \* the last POST to /auth/refresh that started (observation)
    auth_last,        \* the last AuthManager operation that ran (observation)
    tasks_alive,      \* _auto_refresh tasks created and neither cancelled nor finished
    req,              \* per caller: its HttpClient.request in progress, and its outcome
    req_started,      \* request() calls started so far (observation)
    retry_state       \* tenacity's retry loop: the multiplier, the attempts, the waits

breakerVars == <<circuit_breaker, cb_call, cb_last, cb_consec>>
limiterVars == <<rate_limiter, lock_holder, lock_waiters, rl_call, admit_log, rl_started>>
authVars == <<token_info, refresh_task, closed, close_call, refresh_call, installed_at,
              auto_started, sets_done, exchanges, last_exchange, auth_last,
              tasks_alive>>
reqVars == <<req, req_started, retry_state>>
vars == <<now, breakerVars, limiterVars, authVars, reqVars>>

\* ------------------------------------------------------------------ bounds

NumCallers == 2
MaxTime == 150
MaxFailureCount == 7
MaxAcquires == 4
MaxExchanges == 3
AuthHorizon == 3660
MaxSets == 1
MaxRequests == 2
NumRequesters == 1

MaxAttempts == 7

MaxRetryDelay == 15

Callers == 1..NumCallers
Requesters == 1..NumRequesters

\* ---------------------------------------------------------- CircuitBreaker

failure_threshold == 5
timeout == 60

\* CircuitBreaker.__init__
CircuitBreakerInit ==
    [state |-> "closed", failure_count |-> 0, last_failure_time |-> 0]

\* record_failure with the threshold comparison off by one
record_failure_strict(cb, t) ==
    LET n == cb.failure_count + 1 IN
    [state |-> IF n > failure_threshold THEN "open" ELSE cb.state,
     failure_count |-> n,
     last_failure_time |-> t]

\* CircuitBreaker.record_failure
record_failure(cb, t) ==
    LET n == cb.failure_count + 1 IN
    [state |-> IF n >= failure_threshold THEN "open" ELSE cb.state,
     failure_count |-> n,
     last_failure_time |-> t]

\* reset that forgets to close the breaker
reset_keeps_state(cb) ==
    [state |-> cb.state, failure_count |-> 0, last_failure_time |-> 0]

\* CircuitBreaker.reset
reset(cb) ==
    [state |-> "closed", failure_count |-> 0, last_failure_time |-> 0]

\* call that lets one probe through and rejects the others while half open
call_rejects_half_open(cb, t) ==
    \/ cb.state = "open" /\ ~(t - cb.last_failure_time > timeout)
    \/ cb.state = "half_open"

\* CircuitBreaker.call, lines 42-46: does the call raise CircuitBreakerError?
call_rejects(cb, t) ==
    cb.state = "open" /\ ~(t - cb.last_failure_time > timeout)

\* CircuitBreaker.call, lines 42-46: the breaker after the entry check
call_enter(cb, t) ==
    IF cb.state = "open" /\ t - cb.last_failure_time > timeout
    THEN [cb EXCEPT !.state = "half_open"]
    ELSE cb

\* the rejection counted as a failure
call_rejected_recorded(cb, t) == record_failure(cb, t)

\* CircuitBreaker.call, line 46: CircuitBreakerError is raised before the try,
\* the breaker is left as it is
call_rejected(cb, t) == cb

\* the success that resets the breaker in every state
call_return_resets(cb) == reset(cb)

\* CircuitBreaker.call, lines 49-52: the wrapped function returned
call_return(cb) ==
    IF cb.state = "half_open" THEN reset(cb) ELSE cb

\* the failure of the wrapped function left unrecorded
call_except_unrecorded(cb, t) == cb

\* CircuitBreaker.call, lines 53-55: the wrapped function raised
call_except(cb, t) == record_failure(cb, t)

Idle == [pc |-> "idle", probe |-> FALSE, alone |-> FALSE]

NoEvent ==
    [kind |-> "none", proc |-> 0, pre |-> "closed", early |-> FALSE,
     late |-> FALSE, probe |-> FALSE, alone |-> FALSE]

\* Every other call in flight has been overtaken by a change of the breaker.
Disturb(calls, p) ==
    [q \in DOMAIN calls |->
        IF q = p THEN Idle ELSE [calls[q] EXCEPT !.alone = FALSE]]

\* A caller enters CircuitBreaker.call: rejected, or the wrapped function starts.
CallBegin(p) ==
    /\ cb_call[p].pc = "idle"
    /\ circuit_breaker.failure_count
         + Cardinality({q \in Callers : cb_call[q].pc = "running"}) < MaxFailureCount
    /\ LET cb == circuit_breaker
           rej == call_rejects(cb, now)
           nxt == call_enter(cb, now)
           isProbe == cb.state = "open" /\ nxt.state = "half_open"
       IN /\ circuit_breaker' = (IF rej THEN call_rejected(cb, now) ELSE nxt)
          /\ cb_call' = [cb_call EXCEPT ![p] =
                IF rej THEN Idle
                ELSE [pc |-> "running", probe |-> isProbe, alone |-> TRUE]]
          /\ cb_last' = [kind |-> IF rej THEN "rejected" ELSE "invoked",
                         proc |-> p, pre |-> cb.state,
                         early |-> now - cb.last_failure_time < timeout,
                         late |-> now - cb.last_failure_time > timeout,
                         probe |-> isProbe, alone |-> TRUE]
    /\ UNCHANGED <<now, cb_consec, limiterVars, authVars, reqVars>>

\* The wrapped function returns.
CallReturn(p) ==
    /\ cb_call[p].pc = "running"
    /\ circuit_breaker' = call_return(circuit_breaker)
    /\ cb_last' = [NoEvent EXCEPT !.kind = "returned", !.proc = p,
                                  !.pre = circuit_breaker.state,
                                  !.probe = cb_call[p].probe,
                                  !.alone = cb_call[p].alone]
    /\ cb_call' = Disturb(cb_call, p)
    /\ cb_consec' = 0
    /\ UNCHANGED <<now, limiterVars, authVars, reqVars>>

\* The wrapped function raises.
CallRaise(p) ==
    /\ cb_call[p].pc = "running"
    /\ circuit_breaker' = call_except(circuit_breaker, now)
    /\ cb_last' = [NoEvent EXCEPT !.kind = "raised", !.proc = p,
                                  !.pre = circuit_breaker.state,
                                  !.probe = cb_call[p].probe,
                                  !.alone = cb_call[p].alone]
    /\ cb_call' = Disturb(cb_call, p)
    /\ cb_consec' = IF cb_consec < MaxFailureCount THEN cb_consec + 1 ELSE cb_consec
    /\ UNCHANGED <<now, limiterVars, authVars, reqVars>>

\* HttpClient.reset_circuit_breaker
ResetCircuitBreaker ==
    /\ circuit_breaker # CircuitBreakerInit
    /\ circuit_breaker' = reset(circuit_breaker)
    /\ cb_last' = [NoEvent EXCEPT !.kind = "reset", !.pre = circuit_breaker.state]
    /\ cb_call' = [q \in Callers |-> [cb_call[q] EXCEPT !.alone = FALSE]]
    /\ cb_consec' = 0
    /\ UNCHANGED <<now, limiterVars, authVars, reqVars>>

\* ------------------------------------------------------------- RateLimiter

\* config.rate_limit['requests'], requests per minute
rate_limit_requests == 2

\* requests_per_second = requests / 60.0: tokens are counted in 1/TokenScale
\* of a token, so that one second refills rate_limit_requests of them.
TokenScale == 60

\* HttpClient.__init__: burst_size = min(config.rate_limit['requests'], 10)
burst_size == IF rate_limit_requests < 10 THEN rate_limit_requests ELSE 10

Min(a, b) == IF a < b THEN a ELSE b

\* RateLimiter.__init__
RateLimiterInit(t) == [tokens |-> burst_size * TokenScale, last_update |-> t]

\* the refill without its cap
refill_uncapped(rl, t) ==
    [tokens |-> rl.tokens + (t - rl.last_update) * rate_limit_requests,
     last_update |-> t]

\* RateLimiter.acquire, lines 85-92: add the tokens of the elapsed time
refill(rl, t) ==
    [tokens |-> Min(burst_size * TokenScale,
                    rl.tokens + (t - rl.last_update) * rate_limit_requests),
     last_update |-> t]

\* RateLimiter.acquire, line 99: wait_time = (1 - tokens) / requests_per_second
wait_time(rl) == (TokenScale - rl.tokens) \div rate_limit_requests

NoAcquire == [pc |-> "idle", wake |-> 0]

\* RateLimiter.acquire, lines 85-100, run by the caller that holds the lock:
\* refill, then take a token and return, or go to sleep holding the lock.
AcquireBody(p) ==
    LET rl == refill(rate_limiter, now) IN
    IF rl.tokens >= TokenScale
    THEN /\ rate_limiter' = [rl EXCEPT !.tokens = rl.tokens - TokenScale]
         /\ lock_holder' = 0
         /\ rl_call' = [rl_call EXCEPT ![p] = NoAcquire]
         /\ admit_log' = Append(admit_log, now)
    ELSE /\ rate_limiter' = rl
         /\ lock_holder' = p
         /\ rl_call' = [rl_call EXCEPT ![p] =
                            [pc |-> "sleeping", wake |-> now + wait_time(rl)]]
         /\ admit_log' = admit_log

\* the lock taken for free whoever holds it
locked_never(holder, waiters) == FALSE

\* the lock that is never released
locked_always(holder, waiters) == TRUE

\* RateLimiter.acquire, line 83, "async with self.lock": the caller has to
\* queue when the lock is held or others are queued before it.
locked(holder, waiters) == holder # 0 \/ waiters # <<>>

\* RateLimiter.acquire, line 84: the caller takes the lock when it is free and
\* nobody is queued, and queues otherwise.
acquire(p) ==
    IF ~locked(lock_holder, lock_waiters)
    THEN AcquireBody(p) /\ UNCHANGED lock_waiters
    ELSE /\ lock_waiters' = Append(lock_waiters, p)
         /\ rl_call' = [rl_call EXCEPT ![p] = [pc |-> "queued", wake |-> 0]]
         /\ UNCHANGED <<rate_limiter, lock_holder, admit_log>>

\* A caller calls acquire().
AcquireCall(p) ==
    /\ rl_call[p].pc = "idle"
    /\ rl_started < MaxAcquires
    /\ rl_started' = rl_started + 1
    /\ acquire(p)
    /\ UNCHANGED <<now, breakerVars, authVars, reqVars>>

\* The first queued caller gets the released lock.
LockGranted(p) ==
    /\ lock_waiters # <<>>
    /\ Head(lock_waiters) = p
    /\ ~locked(lock_holder, <<>>)
    /\ lock_waiters' = Tail(lock_waiters)
    /\ AcquireBody(p)
    /\ UNCHANGED <<now, rl_started, breakerVars, authVars, reqVars>>

\* RateLimiter.acquire, lines 100-101: the sleep is over; tokens = 0, return.
SleepDone(p) ==
    /\ rl_call[p].pc = "sleeping"
    /\ now >= rl_call[p].wake
    /\ rate_limiter' = [rate_limiter EXCEPT !.tokens = 0]
    /\ lock_holder' = 0
    /\ rl_call' = [rl_call EXCEPT ![p] = NoAcquire]
    /\ admit_log' = Append(admit_log, now)
    /\ UNCHANGED <<now, lock_waiters, rl_started, breakerVars, authVars, reqVars>>

LimiterSteps == {15}

\* The clock advances, never past the end of a sleep.
LimiterAdvance ==
    /\ \E d \in LimiterSteps :
          /\ now + d <= MaxTime
          /\ \A p \in Callers : rl_call[p].pc = "sleeping" => now + d <= rl_call[p].wake
          /\ now' = now + d
    /\ UNCHANGED <<breakerVars, limiterVars, authVars, reqVars>>

\* ------------------------------------------------------------- AuthManager

\* Optional[...] = None, for a datetime or a token
None == -1

\* refresh_token, lines 172-174: an expires_at parsed from an ISO string with a
\* zone ('Z' becomes '+00:00') is an offset-aware datetime; subtracting or
\* comparing it with datetime.utcnow() raises TypeError, whatever its instant.
Aware == -2

\* _is_token_valid: timedelta(minutes=1)
ExpiryBuffer == 60

\* _schedule_refresh: timedelta(minutes=5)
RefreshLead == 300

\* AuthConfig.auto_refresh
auto_refresh == TRUE

\* TokenInfo; access_token names the token (0: the configured one, n: the one
\* the n-th refresh exchange returned), refresh_token is None or 1.
TokenInfo(type, access, refresh, expires) ==
    [token_type |-> type, access_token |-> access,
     refresh_token |-> refresh, expires_at |-> expires]

\* _token_info = None
NoToken == TokenInfo("none", None, None, None)

NoHeader == [scheme |-> "none", value |-> None]

\* AuthManager.get_auth_header
get_auth_header(ti) ==
    IF ti = NoToken THEN NoHeader
    ELSE IF ti.token_type = "api_key"
         THEN [scheme |-> "raw", value |-> ti.access_token]
         ELSE [scheme |-> "Bearer", value |-> ti.access_token]

\* _is_token_valid without the one-minute buffer, and true for a missing token
is_token_valid_loose(ti, t) ==
    IF ti = NoToken THEN TRUE
    ELSE IF ti.token_type = "api_key" THEN TRUE
    ELSE IF ti.expires_at # None THEN t < ti.expires_at
    ELSE TRUE

\* _is_token_valid that takes a bearer token without expires_at for expired
is_token_valid_needs_expiry(ti, t) ==
    IF ti = NoToken THEN FALSE
    ELSE IF ti.token_type = "api_key" THEN TRUE
    ELSE IF ti.expires_at # None THEN t < ti.expires_at - ExpiryBuffer
    ELSE FALSE

\* AuthManager._is_token_valid, line 106: the value for a naive expires_at
\* (is_token_valid_raises tells when the comparison raises instead)
is_token_valid(ti, t) ==
    IF ti = NoToken THEN FALSE
    ELSE IF ti.token_type = "api_key" THEN TRUE
    ELSE IF ti.expires_at # None THEN t < ti.expires_at - ExpiryBuffer
    ELSE TRUE

\* AuthManager._is_token_valid, line 106: utcnow() < aware - timedelta raises
is_token_valid_raises(ti) ==
    ti # NoToken /\ ti.token_type # "api_key" /\ ti.expires_at = Aware

\* AuthManager.is_authenticated
is_authenticated(ti, t) == ti # NoToken /\ is_token_valid(ti, t)

\* _refresh_task: no task (or a finished one), a task asleep until fire, or a
\* task inside its refresh_token() exchange.
NoTask == [status |-> "none", fire |-> 0]

\* _schedule_refresh that arms the timer at the expiry itself
schedule_refresh_at_expiry(ti, t, task) ==
    IF ti = NoToken \/ ti.expires_at = None THEN task
    ELSE IF ti.expires_at = Aware THEN task
    ELSE IF ti.expires_at - t > 0
         THEN [status |-> "sleeping", fire |-> ti.expires_at]
         ELSE task

\* AuthManager._schedule_refresh: the task it leaves in _refresh_task
schedule_refresh(ti, t, task) ==
    IF ti = NoToken \/ ti.expires_at = None THEN task
    ELSE IF ti.expires_at = Aware THEN task
    ELSE LET delay == (ti.expires_at - RefreshLead) - t IN
         IF delay > 0
         THEN [status |-> "sleeping", fire |-> t + delay]
         ELSE task

\* _schedule_refresh, line 217: refresh_time - datetime.utcnow() raises TypeError
schedule_refresh_raises(ti) == ti # NoToken /\ ti.expires_at = Aware

\* AuthManager.set_tokens, lines 120-123: is _schedule_refresh called?
set_tokens_schedules(ti) ==
    auto_refresh /\ ti.refresh_token # None /\ ti.expires_at # None

\* set_tokens that arms the new task without cancelling the old one
cancel_task_forgotten(task, n) == n

\* Task.cancel() on _refresh_task (set_tokens 115-117, clear_tokens 133-135,
\* close 235-240): the tasks alive afterwards; a finished task is not alive.
cancel_task(task, n) == IF task.status # "none" THEN n - 1 ELSE n

\* asyncio.create_task in _schedule_refresh, line 220: the tasks alive afterwards
create_task(task, n) == IF task.status = "sleeping" THEN n + 1 ELSE n

\* AuthManager.set_tokens, lines 114-123: the task after cancel and reschedule
set_tokens_task(ti, t) ==
    IF set_tokens_schedules(ti)
    THEN schedule_refresh(ti, t, NoTask)
    ELSE NoTask

\* The time to remember for a token: only an expiring one has a lifetime.
InstalledAt(ti, t) == IF ti.expires_at # None THEN t ELSE 0

\* AuthManager.__init__, lines 43-61
Construct(ti, t) ==
    /\ token_info = ti
    /\ refresh_task =
         IF auto_refresh /\ ti # NoToken /\ ti.refresh_token # None /\ ti.expires_at # None
         THEN schedule_refresh(ti, t, NoTask)
         ELSE NoTask
    /\ tasks_alive = create_task(refresh_task, 0)
    /\ closed = FALSE
    /\ close_call = "idle"
    /\ installed_at = InstalledAt(ti, t)
    /\ auto_started = FALSE

NoCall == [pc |-> "idle", origin |-> "none"]

\* What the last operation was and, for one that returns a token, which.
Did(op, ok, got) ==
    [op |-> op, ok |-> ok, got |-> got, exc |-> "none", fault |-> "none"]

\* The last operation raised an exception of this class; fault is what the
\* refresh exchange behind it answered, if there was one.
Raised(op, class, fault) ==
    [op |-> op, ok |-> FALSE, got |-> None, exc |-> class, fault |-> fault]

NoExchange == [origin |-> "none", hour |-> FALSE, early |-> FALSE, on_time |-> FALSE]

\* The credential is a refreshable bearer token that expires 3600 s after it
\* was installed.
HourToken ==
    /\ token_info.token_type = "bearer"
    /\ token_info.refresh_token # None
    /\ token_info.expires_at = installed_at + 3600

\* A POST to /auth/refresh starts (refresh_token, lines 143-149).
StartExchange(origin) ==
    /\ exchanges' = exchanges + 1
    /\ last_exchange' = [origin |-> origin, hour |-> HourToken,
                         early |-> HourToken /\ now < installed_at + 3300,
                         on_time |-> HourToken /\ now = installed_at + 3300]

\* clear_tokens that only cancels the scheduled refresh
ClearKeepsToken(ti) == ti

\* AuthManager.clear_tokens, line 131
ClearedToken(ti) == NoToken

\* AuthManager.clear_tokens
clear_tokens ==
    /\ token_info # NoToken
    /\ token_info' = ClearedToken(token_info)
    /\ refresh_task' = NoTask
    /\ tasks_alive' = cancel_task(refresh_task, tasks_alive)
    /\ installed_at' = 0
    /\ auto_started' = FALSE
    /\ auth_last' = Did("clear_tokens", TRUE, None)
    /\ UNCHANGED <<closed, close_call, refresh_call, sets_done, exchanges, last_exchange>>

\* The credentials a caller installs with set_tokens.
GivenTokens ==
    { TokenInfo("bearer", 0, 1, now + 3600),
      TokenInfo("bearer", 0, 1, now + 120) }

\* AuthManager.set_tokens, called by the application
set_tokens(ti) ==
    /\ ~closed /\ close_call = "idle"
    /\ sets_done < MaxSets
    /\ sets_done' = sets_done + 1
    /\ token_info' = ti
    /\ refresh_task' = set_tokens_task(ti, now)
    /\ tasks_alive' = create_task(refresh_task', cancel_task(refresh_task, tasks_alive))
    /\ installed_at' = InstalledAt(ti, now)
    /\ auto_started' = FALSE
    /\ auth_last' = Did("set_tokens", TRUE, None)
    /\ UNCHANGED <<closed, close_call, refresh_call, exchanges, last_exchange>>

\* What /auth/refresh answers: a transport failure, a status other than 200,
\* or 200 with a new access token and expires_in seconds, an expires_at ISO
\* string with a zone, or no expiry at all.
RefreshAnswer(fault, expires_in, expires_at) ==
    [ok |-> fault = "none", fault |-> fault,
     expires_in |-> expires_in, expires_at |-> expires_at]

RefreshAnswers ==
    { RefreshAnswer("transport", None, None),
      RefreshAnswer("status", None, None),
      RefreshAnswer("none", 3600, None),
      RefreshAnswer("none", None, Aware),
      RefreshAnswer("none", None, None) }

\* the exchange that leaves a credential stored meanwhile in place
refreshed_token_keeps(ti, answer, t, n) == ti

\* refresh_token, lines 160-179: the new TokenInfo
refreshed_token(ti, answer, t, n) ==
    TokenInfo("bearer", n, ti.refresh_token,
              IF answer.expires_in # None THEN t + answer.expires_in
              ELSE IF answer.expires_at # None THEN answer.expires_at
              ELSE None)

\* the exchange installing its token whatever is stored by then
refresh_installs_cleared(ti, answer) == answer.ok

\* refresh_token, lines 151-181: does the exchange reach set_tokens, line 112?
\* Line 162 reads self._token_info again, which raises when it is None by now.
refresh_installs(ti, answer) == answer.ok /\ ti # NoToken

\* refresh_token, lines 151-182: does the call return the new TokenInfo?
\* set_tokens raises out of _schedule_refresh for an offset-aware expiry, after
\* it has stored the token and cancelled the task.
refresh_succeeds(ti, answer) ==
    /\ refresh_installs(ti, answer)
    /\ LET new == refreshed_token(ti, answer, 0, 0) IN
       ~(set_tokens_schedules(new) /\ schedule_refresh_raises(new))

\* refresh_token, lines 145-181: what the try block raises when it fails
refresh_inner_exc(ti, answer) ==
    IF answer.fault = "transport" THEN "httpx.RequestError"
    ELSE IF answer.fault = "status" THEN "TypeError"
    ELSE IF ti = NoToken THEN "AttributeError"
    ELSE "TypeError"

\* refresh_token without its except clauses: the exception passes through
refresh_exc_passes(inner) == inner

\* refresh_token, lines 184-193: both except clauses raise AuthenticationError
refresh_exc(inner) ==
    IF inner = "httpx.RequestError" THEN "AuthenticationError"
    ELSE "AuthenticationError"

\* refresh_token, line 139: is there anything to refresh with?
can_refresh(ti) == ti # NoToken /\ ti.refresh_token # None

\* ensure_valid_token, lines 197-208: what the call does with the stored token
ensure_outcome(ti, t) ==
    IF ti = NoToken THEN "no_token"
    ELSE IF is_token_valid_raises(ti) THEN "type_error"
    ELSE IF is_token_valid(ti, t) THEN "valid"
    ELSE IF ti.refresh_token # None /\ auto_refresh THEN "refresh"
    ELSE "expired"

\* AuthManager.ensure_valid_token, up to its first await
ensure_valid_token(p) ==
    /\ refresh_call[p].pc = "idle"
    /\ ~closed /\ close_call = "idle"
    /\ LET outcome == ensure_outcome(token_info, now) IN
       IF outcome = "refresh"
       THEN /\ exchanges < MaxExchanges
            /\ refresh_call' = [refresh_call EXCEPT ![p] =
                   [pc |-> "posting", origin |-> "ensure"]]
            /\ StartExchange("ensure")
            /\ auth_last' = Did("ensure_refresh", TRUE, None)
       ELSE /\ auth_last' =
                 CASE outcome = "valid" ->
                          Did("ensure_valid_token", TRUE, token_info.access_token)
                   [] outcome = "type_error" ->
                          Raised("ensure_valid_token", "TypeError", "none")
                   [] OTHER ->
                          Raised("ensure_valid_token", "AuthenticationError", "none")
            /\ UNCHANGED <<refresh_call, exchanges, last_exchange>>
    /\ UNCHANGED <<token_info, refresh_task, closed, close_call, installed_at, auto_started, sets_done,
                   tasks_alive>>

\* _execute_request, lines 232-234: a response with status 401 makes the
\* request call refresh_token(); here up to the POST.
refresh_on_401(p) ==
    /\ refresh_call[p].pc = "idle"
    /\ ~closed /\ close_call = "idle"
    /\ can_refresh(token_info)
    /\ exchanges < MaxExchanges
    /\ refresh_call' = [refresh_call EXCEPT ![p] =
           [pc |-> "posting", origin |-> "r401"]]
    /\ StartExchange("r401")
    /\ auth_last' = Did("refresh_token", TRUE, None)
    /\ UNCHANGED <<token_info, refresh_task, closed, close_call, installed_at, auto_started, sets_done,
                   tasks_alive>>

\* Why a refresh_token() call failed: the exchange (transport, status), or the
\* code after a 200 answer (internal).
failure_of(ti, answer) == IF answer.ok THEN "internal" ELSE answer.fault

\* The operation that ends when the exchange of a caller is answered.
done_op(origin) == IF origin = "ensure" THEN "ensure_refresh_done" ELSE "refresh_done"

\* refresh_token, lines 151-193, after the POST of caller p has been answered
refresh_done(p, answer) ==
    /\ refresh_call[p].pc = "posting"
    /\ closed => answer.fault = "transport"
    /\ refresh_call' = [refresh_call EXCEPT ![p] = NoCall]
    /\ auth_last' =
          IF refresh_succeeds(token_info, answer)
          THEN Did(done_op(refresh_call[p].origin), TRUE, exchanges)
          ELSE Raised(done_op(refresh_call[p].origin),
                      refresh_exc(refresh_inner_exc(token_info, answer)),
                      failure_of(token_info, answer))
    /\ IF refresh_installs(token_info, answer)
       THEN LET new == refreshed_token(token_info, answer, now, exchanges) IN
            /\ token_info' = new
            /\ refresh_task' = set_tokens_task(new, now)
            /\ tasks_alive' = create_task(refresh_task', cancel_task(refresh_task, tasks_alive))
            /\ installed_at' = InstalledAt(new, now)
            /\ auto_started' = FALSE
       ELSE UNCHANGED <<token_info, refresh_task, installed_at, auto_started, tasks_alive>>
    /\ UNCHANGED <<closed, close_call, sets_done, exchanges, last_exchange>>

\* _auto_refresh, lines 225-226: the sleep is over, refresh_token() starts
auto_refresh_fires ==
    /\ refresh_task.status = "sleeping"
    /\ now >= refresh_task.fire
    /\ auth_last' = Did("auto_refresh", can_refresh(token_info), None)
    /\ IF can_refresh(token_info)
       THEN /\ exchanges < MaxExchanges
            /\ refresh_task' = [refresh_task EXCEPT !.status = "posting"]
            /\ auto_started' = TRUE
            /\ StartExchange("timer")
            /\ UNCHANGED tasks_alive
       ELSE /\ refresh_task' = NoTask
            /\ tasks_alive' = tasks_alive - 1
            /\ UNCHANGED <<auto_started, exchanges, last_exchange>>
    /\ UNCHANGED <<token_info, closed, close_call, refresh_call, installed_at, sets_done>>

\* the task that goes back to sleep after a failed refresh
auto_refresh_rearms(task) == [status |-> "sleeping", fire |-> task.fire]

\* _auto_refresh, lines 229-231: the exception of refresh_token() is passed to
\* on_auth_error and the task ends
auto_refresh_failed(task) == NoTask

\* _auto_refresh, lines 226-231: the task's refresh_token() has been answered
auto_refresh_done(answer) ==
    /\ refresh_task.status = "posting"
    /\ auth_last' =
          IF refresh_succeeds(token_info, answer)
          THEN Did("auto_refresh_done", TRUE, None)
          ELSE Raised("auto_refresh_done",
                      refresh_exc(refresh_inner_exc(token_info, answer)),
                      failure_of(token_info, answer))
    /\ IF refresh_installs(token_info, answer)
       THEN LET new == refreshed_token(token_info, answer, now, exchanges) IN
            /\ token_info' = new
            /\ refresh_task' = set_tokens_task(new, now)
            /\ tasks_alive' = create_task(refresh_task', cancel_task(refresh_task, tasks_alive))
            /\ installed_at' = InstalledAt(new, now)
            /\ auto_started' = FALSE
       ELSE /\ refresh_task' = auto_refresh_failed(refresh_task)
            /\ tasks_alive' = tasks_alive - 1
            /\ UNCHANGED <<token_info, installed_at, auto_started>>
    /\ UNCHANGED <<closed, close_call, refresh_call, sets_done, exchanges, last_exchange>>

\* AuthManager.close, lines 235-240: the task is cancelled and awaited; the
\* call is suspended there and in aclose(), and other coroutines run.
close_begin ==
    /\ close_call = "idle"
    /\ close_call' = "closing"
    /\ refresh_task' = NoTask
    /\ tasks_alive' = cancel_task(refresh_task, tasks_alive)
    /\ auth_last' = Did("close_begin", TRUE, None)
    /\ UNCHANGED <<token_info, closed, refresh_call, installed_at, auto_started,
                   sets_done, exchanges, last_exchange>>

\* AuthManager.close, line 242: aclose() of the manager's HTTP client is over
\* and close() returns.
close ==
    /\ close_call = "closing"
    /\ close_call' = "idle"
    /\ closed' = TRUE
    /\ auth_last' = Did(IF closed THEN "close_again" ELSE "close", TRUE, None)
    /\ UNCHANGED <<token_info, refresh_task, refresh_call, installed_at, auto_started,
                   sets_done, exchanges, last_exchange, tasks_alive>>

\* The instants the clock of the token store is read at.
AuthInstants == {60, 3300, 3360, 3540, 3600}

\* The clock advances to a later instant, never past the end of the task's sleep.
AuthAdvance ==
    /\ \E t \in AuthInstants \cup {refresh_task.fire} :
          /\ t > now
          /\ t <= AuthHorizon
          /\ refresh_task.status = "sleeping" => t <= refresh_task.fire
          /\ now' = t
    /\ UNCHANGED <<breakerVars, limiterVars, authVars, reqVars>>

\* The credentials the client is constructed with.
ConfiguredTokens ==
    { TokenInfo("api_key", 0, None, None),
      TokenInfo("bearer", 0, 1, None),
      TokenInfo("bearer", 0, 1, 30),
      TokenInfo("bearer", 0, 1, 3600),
      TokenInfo("bearer", 0, None, 3600) }

\* --------------------------------------------------------------- exceptions

\* An exception: its class, and for an SDK error its code and status.
Exc(class, code, status) == [class |-> class, code |-> code, status |-> status]

NoExc == Exc("none", "none", None)

\* BackstageSDKError and its subclasses
SDKErrorClasses ==
    {"BackstageSDKError", "AuthenticationError", "AuthorizationError",
     "NotFoundError", "ValidationError", "RateLimitError", "ServerError",
     "NetworkError", "TimeoutError", "ConfigurationError", "WebSocketError",
     "GraphQLError", "CircuitBreakerError", "RetryError"}

\* create_error_from_response, lines 130-142: error_map.get(status, BackstageSDKError)
error_class(status) ==
    CASE status = 400 -> "ValidationError"
      [] status = 401 -> "AuthenticationError"
      [] status = 403 -> "AuthorizationError"
      [] status = 404 -> "NotFoundError"
      [] status = 429 -> "RateLimitError"
      [] status \in {500, 502, 503} -> "ServerError"
      [] status = 504 -> "TimeoutError"
      [] OTHER -> "BackstageSDKError"

\* The code each subclass's __init__ passes to BackstageSDKError.__init__
own_code(class) ==
    CASE class = "AuthenticationError" -> "AUTH_ERROR"
      [] class = "AuthorizationError" -> "AUTHORIZATION_ERROR"
      [] class = "NotFoundError" -> "NOT_FOUND"
      [] class = "ValidationError" -> "VALIDATION_ERROR"
      [] class = "RateLimitError" -> "RATE_LIMIT_ERROR"
      [] class = "ServerError" -> "SERVER_ERROR"
      [] class = "NetworkError" -> "NETWORK_ERROR"
      [] class = "TimeoutError" -> "TIMEOUT_ERROR"
      [] class = "ConfigurationError" -> "CONFIG_ERROR"
      [] class = "WebSocketError" -> "WEBSOCKET_ERROR"
      [] class = "GraphQLError" -> "GRAPHQL_ERROR"
      [] class = "CircuitBreakerError" -> "CIRCUIT_BREAKER_ERROR"
      [] class = "RetryError" -> "RETRY_ERROR"
      [] OTHER -> "SDK_ERROR"

\* The status each subclass's __init__ passes to BackstageSDKError.__init__
own_status(class) ==
    CASE class = "AuthenticationError" -> 401
      [] class = "AuthorizationError" -> 403
      [] class = "NotFoundError" -> 404
      [] class = "ValidationError" -> 400
      [] class = "RateLimitError" -> 429
      [] class = "ServerError" -> 500
      [] OTHER -> None

\* cls(message): the subclass fills in its own code and status
construct(class) == Exc(class, own_code(class), own_status(class))

\* cls(message=..., code=..., status=..., details=...) as if the subclasses
\* accepted the keywords
construct_with_code_accepted(class, code, status) == Exc(class, code, status)

\* cls(message=..., code=..., status=..., details=...): every subclass's
\* __init__ passes code= itself and forwards **kwargs, so the call raises
\* TypeError (multiple values for keyword argument 'code'); only
\* BackstageSDKError itself takes the keywords.
construct_with_code(class, code, status) ==
    IF class = "BackstageSDKError"
    THEN Exc(class, code, status)
    ELSE Exc("TypeError", "none", None)

\* exceptions.create_error_from_response; the body's 'error' defaults to API_ERROR
create_error_from_response(status) ==
    construct_with_code(error_class(status), "API_ERROR", status)

\* is_retryable_error, lines 150-155
retryable_codes ==
    {"SERVER_ERROR", "TIMEOUT_ERROR", "NETWORK_ERROR", "CIRCUIT_BREAKER_ERROR"}

\* the verdict from the status alone
is_retryable_by_status(exc) ==
    IF exc.status # None /\ exc.status >= 500 THEN "True" ELSE "False"

\* exceptions.is_retryable_error: the value returned, "True", "False" or
\* "None". For an SDK error it is
\* code in retryable_codes or (status and status >= 500), which is None when
\* the code is not retryable and the error has no status; for any other
\* exception it is isinstance(error, (ConnectionError, TimeoutError)), where
\* TimeoutError is the SDK's class of that name.
is_retryable_error(exc) ==
    IF exc.class \in SDKErrorClasses
    THEN IF exc.code \in retryable_codes THEN "True"
         ELSE IF exc.status = None THEN "None"
         ELSE IF exc.status >= 500 THEN "True"
         ELSE "False"
    ELSE IF exc.class = "ConnectionError" THEN "True" ELSE "False"

\* ---------------------------------------------------------------- HttpClient

\* config.retries or 3
retries == 3

\* What the transport does with one HTTP call: a response with a status, a
\* timeout (httpx.TimeoutException) or a connection failure (httpx.RequestError).
Response(status) == [kind |-> "response", status |-> status]
Statuses == {200, 400, 401, 403, 404, 418, 429, 503}
Outcomes ==
    {Response(st) : st \in Statuses}
        \cup {[kind |-> "timeout", status |-> None], [kind |-> "network", status |-> None]}

\* _execute_request, lines 258-283: the exception one HTTP outcome ends in
execute_exc(o) ==
    CASE o.kind = "timeout" -> construct("TimeoutError")
      [] o.kind = "network" -> construct("NetworkError")
      [] OTHER -> create_error_from_response(o.status)

\* _execute_request, lines 259, 271-278: the response is returned to the caller
is_success(o) == o.kind = "response" /\ o.status < 400

\* the 401 test that never matches
handles_401_never(o) == FALSE

\* _execute_request, line 232: status 401 and an auth manager
handles_401(o) == o.kind = "response" /\ o.status = 401

\* HttpClient._transform_error
transform_error(exc) ==
    IF exc.class \in SDKErrorClasses THEN exc
    ELSE IF exc.class = "httpx.TimeoutException" THEN construct("TimeoutError")
    ELSE IF exc.class = "httpx.RequestError" THEN construct("NetworkError")
    ELSE Exc("BackstageSDKError", "SDK_ERROR", None)

\* retry= as if it retried whatever the attempt raised
tenacity_retries_any(exc) == TRUE

\* request, line 180: retry_if_exception_type((httpx.RequestError, httpx.TimeoutException))
tenacity_retries(exc) == exc.class \in {"httpx.RequestError", "httpx.TimeoutException"}

\* ClientConfig.retry_delay, in seconds
retry_delay == 1

\* the wait without its maximum
wait_uncapped(multiplier, attempt) == multiplier * 2 ^ (attempt - 1)

\* request, lines 176-179: wait_exponential(multiplier=..., max=30) after the
\* given attempt, max(0, min(multiplier * 2^(attempt - 1), 30))
wait_exponential_of(multiplier, attempt) == Min(30, multiplier * 2 ^ (attempt - 1))

\* request, line 177: the multiplier is config.retry_delay or 1.0
wait_exponential(attempt) == wait_exponential_of(retry_delay, attempt)

\* tenacity's loop before the first attempt
NoRetryState(multiplier) == [multiplier |-> multiplier, attempt_number |-> 0, waits |-> <<>>]

\* The values of config.retry_delay
RetryDelays == 1..MaxRetryDelay

\* tenacity's loop, one turn: the attempt is over and is to be retried, the
\* wait before the next one is computed.
next_wait ==
    /\ retry_state.attempt_number < MaxAttempts
    /\ retry_state' =
          [retry_state EXCEPT
              !.attempt_number = @ + 1,
              !.waits = Append(@, wait_exponential_of(retry_state.multiplier,
                                                      retry_state.attempt_number + 1))]
    /\ UNCHANGED <<now, breakerVars, limiterVars, authVars, req, req_started>>

NoResult == [ok |-> FALSE, status |-> None, exc |-> NoExc]

\* A request() that has not started. cred and found observe the stored
\* credential when the header was read: what ensure_valid_token would have
\* done with it, and which token it was; sets_seen observes how many
\* set_tokens calls had been made when its refresh exchange started.
NoRequest ==
    [pc |-> "idle", header |-> NoHeader, cred |-> "none", found |-> None,
     attempt |-> 0, wake |-> 0,
     tried |-> <<>>, http_calls |-> 0, refreshes |-> 0,
     saw401 |-> FALSE, refreshable |-> FALSE, refresh_ok |-> "none",
     sets_seen |-> 0, result |-> NoResult]

\* _execute_request returned: the breaker sees a success, request() returns.
FinishOk(p, r, o) ==
    /\ circuit_breaker' = call_return(circuit_breaker)
    /\ req' = [req EXCEPT ![p] =
          [r EXCEPT !.pc = "done",
                    !.result = [ok |-> TRUE, status |-> o.status, exc |-> NoExc]]]

\* An attempt raised exc: tenacity retries it after a wait, or request() raises
\* _transform_error(exc).
AfterRaise(p, r, exc) ==
    req' = [req EXCEPT ![p] =
        IF tenacity_retries(exc) /\ r.attempt < retries
        THEN [r EXCEPT !.pc = "backoff", !.wake = now + wait_exponential(r.attempt)]
        ELSE [r EXCEPT !.pc = "done",
                       !.result = [ok |-> FALSE, status |-> None,
                                   exc |-> transform_error(exc)]]]

\* _execute_request raised exc: the breaker records the failure.
FinishExc(p, r, exc) ==
    /\ circuit_breaker' = call_except(circuit_breaker, now)
    /\ AfterRaise(p, r, exc)

\* HttpClient.__init__, line 126: rate_limiter = None
NoRateLimiter == [tokens |-> None, last_update |-> None]

\* the request that takes no token although a rate limiter is configured
limited_never(rl) == FALSE

\* request, line 146: if self.rate_limiter
limited(rl) == rl # NoRateLimiter

\* request(), lines 146-147: with a rate limiter, the request starts with
\* acquire().
request_acquire(p) ==
    /\ req[p].pc \in {"idle", "done"}
    /\ limited(rate_limiter)
    /\ req_started < MaxRequests
    /\ req_started' = req_started + 1
    /\ req' = [req EXCEPT ![p] = [NoRequest EXCEPT !.pc = "acquire"]]
    /\ acquire(p)
    /\ UNCHANGED <<now, rl_started, breakerVars, authVars, retry_state>>

\* request(), lines 146-198, and every later turn of tenacity's loop: without
\* a rate limiter, or once acquire() has returned, the header is read once,
\* then _make_request enters the breaker and sends the HTTP call, or the open
\* breaker raises CircuitBreakerError.
make_request(p) ==
    LET begins == req[p].pc \in {"idle", "done"} /\ ~limited(rate_limiter)
        admitted == req[p].pc = "acquire" /\ rl_call[p].pc = "idle"
        fresh == begins \/ admitted
        r0 == IF fresh
              THEN [NoRequest EXCEPT !.header = get_auth_header(token_info),
                                     !.cred = ensure_outcome(token_info, now),
                                     !.found = token_info.access_token]
              ELSE req[p]
        r == [r0 EXCEPT !.attempt = @ + 1]
    IN /\ \/ begins /\ req_started < MaxRequests
          \/ admitted
          \/ req[p].pc = "backoff" /\ now >= req[p].wake
       /\ req_started' = IF begins THEN req_started + 1 ELSE req_started
       /\ IF call_rejects(circuit_breaker, now)
          THEN /\ AfterRaise(p, r, construct("CircuitBreakerError"))
               /\ circuit_breaker' = call_rejected(circuit_breaker, now)
          ELSE /\ circuit_breaker' = call_enter(circuit_breaker, now)
               /\ req' = [req EXCEPT ![p] =
                     [r EXCEPT !.pc = "http1", !.http_calls = @ + 1]]
       /\ UNCHANGED <<now, cb_call, cb_last, cb_consec, limiterVars, authVars, retry_state>>

\* _execute_request, lines 221-283: the first HTTP call of the attempt is over.
http1_done(p, o) ==
    /\ req[p].pc = "http1"
    /\ LET r == [req[p] EXCEPT !.tried = Append(@, o)] IN
       IF handles_401(o)
       THEN IF can_refresh(token_info)
            THEN /\ refresh_on_401(p)
                 /\ req' = [req EXCEPT ![p] =
                       [r EXCEPT !.pc = "refreshing", !.saw401 = TRUE,
                                 !.refreshable = TRUE, !.refreshes = @ + 1,
                                 !.sets_seen = sets_done]]
                 /\ UNCHANGED circuit_breaker
            ELSE /\ FinishExc(p, [r EXCEPT !.saw401 = TRUE],
                              create_error_from_response(o.status))
                 /\ UNCHANGED authVars
       ELSE /\ IF is_success(o)
               THEN FinishOk(p, r, o)
               ELSE FinishExc(p, r, execute_exc(o))
            /\ UNCHANGED authVars
    /\ UNCHANGED <<now, cb_call, cb_last, cb_consec, limiterVars, req_started, retry_state>>

\* the retried call as if its response went through the 401 test again
retry_through_401_test(r, header) ==
    [r EXCEPT !.pc = "http1", !.refresh_ok = "ok", !.header = header,
              !.http_calls = @ + 1]

\* _execute_request, lines 236-252: the header is rebuilt and the call is sent
\* once more; its response goes straight to the classification.
retry_after_refresh(r, header) ==
    [r EXCEPT !.pc = "http2", !.refresh_ok = "ok", !.header = header,
              !.http_calls = @ + 1]

\* _execute_request, lines 234-256: refresh_token() is over; on success the
\* call is sent again with the new header, on failure the 401 response stands.
request_refresh_done(p, a) ==
    /\ req[p].pc = "refreshing"
    /\ refresh_done(p, a)
    /\ IF refresh_succeeds(token_info, a)
       THEN /\ req' = [req EXCEPT ![p] =
                  retry_after_refresh(@, get_auth_header(token_info'))]
            /\ UNCHANGED circuit_breaker
       ELSE FinishExc(p, [req[p] EXCEPT !.refresh_ok = "failed"],
                      create_error_from_response(401))
    /\ UNCHANGED <<now, cb_call, cb_last, cb_consec, limiterVars, req_started, retry_state>>

\* _execute_request, lines 245-283: the retried HTTP call is over; an exception
\* of the transport is swallowed (line 254) and the 401 response stands.
http2_done(p, o) ==
    /\ req[p].pc = "http2"
    /\ IF o.kind # "response"
       THEN FinishExc(p, req[p], create_error_from_response(401))
       ELSE IF is_success(o)
            THEN FinishOk(p, req[p], o)
            ELSE FinishExc(p, req[p], execute_exc(o))
    /\ UNCHANGED <<now, cb_call, cb_last, cb_consec, limiterVars, authVars, req_started,
                   retry_state>>

RequestSteps == {61}

\* The clock advances, never past the end of a backoff.
RequestAdvance ==
    /\ \E t \in {now + d : d \in RequestSteps}
                  \cup {req[p].wake : p \in {q \in Requesters : req[q].pc = "backoff"}} :
          /\ t > now
          /\ t <= MaxTime
          /\ \A p \in Requesters : req[p].pc = "backoff" => t <= req[p].wake
          /\ now' = t
    /\ UNCHANGED <<breakerVars, limiterVars, authVars, reqVars>>

ReqIdle ==
    /\ req = [p \in Requesters |-> NoRequest]
    /\ req_started = 0
    /\ retry_state = NoRetryState(retry_delay)

BreakerIdle ==
    /\ circuit_breaker = CircuitBreakerInit
    /\ cb_call = [p \in Callers |-> Idle]
    /\ cb_last = NoEvent
    /\ cb_consec = 0

\* HttpClient.__init__, lines 126-127: no rate limiter is configured
LimiterAbsent ==
    /\ rate_limiter = NoRateLimiter
    /\ lock_holder = 0
    /\ lock_waiters = <<>>
    /\ rl_call = [p \in Callers |-> NoAcquire]
    /\ admit_log = <<>>
    /\ rl_started = 0

LimiterIdle ==
    /\ rate_limiter = RateLimiterInit(0)
    /\ lock_holder = 0
    /\ lock_waiters = <<>>
    /\ rl_call = [p \in Callers |-> NoAcquire]
    /\ admit_log = <<>>
    /\ rl_started = 0

AuthIdle ==
    /\ Construct(NoToken, 0)
    /\ refresh_call = [p \in Callers |-> NoCall]
    /\ sets_done = 0
    /\ exchanges = 0
    /\ last_exchange = NoExchange
    /\ auth_last = Did("init", TRUE, None)

AuthInit ==
    /\ now = 0
    /\ BreakerIdle
    /\ LimiterIdle
    /\ \E ti \in ConfiguredTokens : Construct(ti, 0)
    /\ refresh_call = [p \in Callers |-> NoCall]
    /\ sets_done = 0
    /\ exchanges = 0
    /\ last_exchange = NoExchange
    /\ auth_last = Did("init", TRUE, None)
    /\ ReqIdle

\* What the token store's operations leave alone.
AuthFrame == UNCHANGED <<now, breakerVars, limiterVars, reqVars>>

AuthNext ==
    \/ clear_tokens /\ AuthFrame
    \/ \E ti \in GivenTokens : set_tokens(ti) /\ AuthFrame
    \/ \E p \in Callers : ensure_valid_token(p) /\ AuthFrame
    \/ \E p \in Callers : refresh_on_401(p) /\ AuthFrame
    \/ \E p \in Callers, a \in RefreshAnswers : refresh_done(p, a) /\ AuthFrame
    \/ auto_refresh_fires /\ AuthFrame
    \/ \E a \in RefreshAnswers : auto_refresh_done(a) /\ AuthFrame
    \/ close_begin /\ AuthFrame
    \/ close /\ AuthFrame
    \/ AuthAdvance

SpecAuth == AuthInit /\ [][AuthNext]_vars

\* -------------------------------------------------------- AuthManager: claims

\* The scheduled refresh of a token installed at t0 with a lifetime of 3600 s:
\* until t0 + 3300 the task sleeps and will wake at t0 + 3300, from then on it
\* has started its exchange, and it started it at t0 + 3300.
RefreshAtLead ==
    /\ (HourToken /\ ~closed /\ close_call = "idle" =>
            IF auto_started THEN now >= installed_at + 3300
            ELSE /\ now <= installed_at + 3300
                 /\ refresh_task = [status |-> "sleeping", fire |-> installed_at + 3300])
    /\ (last_exchange.origin = "timer" /\ last_exchange.hour => last_exchange.on_time)

\* C8 as stated: while a refreshable bearer token installed at t0 with
\* expires_in = 3600 is stored, no refresh exchange starts before t0 + 3300,
\* whoever asks, and the scheduled one starts at t0 + 3300.
C8_AsStated ==
    /\ ~last_exchange.early
    /\ RefreshAtLead

\* C8, amended: before t0 + 3300 only a request() answered with 401 starts a
\* refresh exchange (never ensure_valid_token, never the scheduled task), and
\* unless the token is replaced or cleared or the manager closed, the scheduled
\* task starts one at t0 + 3300.
C8_OnlyOn401BeforeLead ==
    /\ (last_exchange.early => last_exchange.origin = "r401")
    /\ RefreshAtLead

C8_Witness ==
    /\ HourToken
    /\ installed_at > 0
    /\ auto_started
    /\ last_exchange = [origin |-> "timer", hour |-> TRUE, early |-> FALSE, on_time |-> TRUE]
    /\ now = installed_at + 3300

\* C9: right after clear_tokens(), get_auth_header() is None and
\* is_authenticated() is false.
C9_ClearedStore ==
    auth_last.op = "clear_tokens"
        => /\ get_auth_header(token_info) = NoHeader
           /\ ~is_authenticated(token_info, now)

C9_Witness ==
    /\ auth_last.op = "clear_tokens"
    /\ token_info = NoToken
    /\ exchanges > 0
    /\ \E p \in Callers : refresh_call[p].pc = "posting"

\* C10: concurrent ensure_valid_token() calls that find the token invalid share
\* one refresh exchange: two exchanges started by ensure_valid_token are never
\* in flight together.
C10_CoalescedRefresh ==
    Cardinality({p \in Callers : /\ refresh_call[p].pc = "posting"
                                 /\ refresh_call[p].origin = "ensure"}) <= 1

\* C11: the scheduled refresh and the refreshes that 401 responses of
\* concurrent request() calls trigger never have two exchanges in flight at
\* the same time.
C11_OneExchangeInFlight ==
    Cardinality({p \in Callers : /\ refresh_call[p].pc = "posting"
                                 /\ refresh_call[p].origin = "r401"})
        + (IF refresh_task.status = "posting" THEN 1 ELSE 0) <= 1

\* The timer that is armed: the task while it sleeps.
ArmedTimer(task) == IF task.status = "sleeping" THEN task ELSE NoTask

\* A refresh_token() call ends in this step, failed by its exchange (transport
\* failure or a status other than 200).
ExchangeFailed ==
    /\ auth_last' # auth_last
    /\ auth_last'.op \in {"refresh_done", "ensure_refresh_done", "auto_refresh_done"}
    /\ auth_last'.fault \in {"transport", "status"}

\* C16: a refresh_token() call that fails by a transport failure or a non-200
\* answer raises AuthenticationError and leaves the stored credential and the
\* armed timer as they were.
C16_FailedRefreshKeepsState ==
    [][ExchangeFailed =>
          /\ auth_last'.exc = "AuthenticationError"
          /\ token_info' = token_info
          /\ ArmedTimer(refresh_task') = ArmedTimer(refresh_task)]_vars

C16_Witness ==
    /\ auth_last.op = "refresh_done"
    /\ auth_last.fault = "status"
    /\ auth_last.exc = "AuthenticationError"
    /\ token_info = TokenInfo("bearer", 0, 1, 3600)
    /\ refresh_task = [status |-> "sleeping", fire |-> 3300]

\* C17: at any time at most one _auto_refresh task is alive (created and
\* neither cancelled nor finished), so at most one scheduled refresh is pending.
C17_OneScheduledRefresh == tasks_alive <= 1

C17_Witness ==
    /\ auth_last.op = "auto_refresh_done"
    /\ auth_last.ok
    /\ refresh_task.status = "sleeping"
    /\ refresh_task.fire > now
    /\ sets_done > 0
    /\ tasks_alive = 1

\* C20: ensure_valid_token() has three outcomes. It returns the stored
\* credential, which is valid; or it fails with AuthenticationError, and then
\* there is no credential or an invalid one without refresh token; or it
\* performs a refresh exchange, which ends in the new credential (or in the
\* exchange's AuthenticationError). It never ends in anything else.
C20_ThreeOutcomes ==
    [][auth_last' # auth_last =>
          /\ auth_last'.op = "ensure_valid_token" =>
                \/ /\ auth_last'.ok
                   /\ auth_last'.got = token_info.access_token
                   /\ is_token_valid(token_info, now)
                   /\ exchanges' = exchanges
                \/ /\ auth_last'.exc = "AuthenticationError"
                   /\ token_info' = token_info
                   /\ \/ token_info = NoToken
                      \/ /\ ~is_token_valid(token_info, now)
                         /\ token_info.refresh_token = None
          /\ auth_last'.op = "ensure_refresh" =>
                /\ ~is_token_valid(token_info, now)
                /\ token_info.refresh_token # None
                /\ exchanges' = exchanges + 1
          /\ auth_last'.op = "ensure_refresh_done" =>
                \/ auth_last'.ok /\ auth_last'.got = token_info'.access_token
                \/ auth_last'.exc = "AuthenticationError"]_vars

\* C21: for the stored credential at any time, the validity check returns
\* true for an api key, and for a bearer token with an expires_at it returns
\* true exactly when now < expires_at - 60 s.
C21_ValidityCheck ==
    token_info # NoToken =>
        /\ ~is_token_valid_raises(token_info)
        /\ token_info.token_type = "api_key" => is_token_valid(token_info, now)
        /\ token_info.token_type = "bearer" /\ token_info.expires_at # None =>
               (is_token_valid(token_info, now) <=> now < token_info.expires_at - 60)

\* C22: once close() has returned no _auto_refresh task is alive, sleeping
\* or in its exchange, so that none is pending and none fires later; this is
\* so after a second close() as well.
C22_NoRefreshAfterClose ==
    closed /\ close_call = "idle" => tasks_alive = 0 /\ refresh_task = NoTask

\* C26: after set_tokens() with a refreshable bearer credential whose
\* expires_at - 5 min is not after the time of the call, a refresh task is
\* armed that is due at once.
C26_DueTimerArmed ==
    /\ auth_last.op = "set_tokens"
    /\ token_info.token_type = "bearer"
    /\ token_info.refresh_token # None
    /\ token_info.expires_at >= 0
    /\ token_info.expires_at - RefreshLead <= installed_at
    => /\ refresh_task.status = "sleeping"
       /\ refresh_task.fire <= installed_at

\* C28: while no credential is stored none is installed except by set_tokens()
\* of the application, and no refresh task is alive: the scheduled refresh
\* that clear_tokens() cancelled never fires, and an exchange that was in
\* flight when the credential was cleared installs nothing when it is
\* answered.
C28_ClearedUntilSet ==
    /\ [](token_info = NoToken => refresh_task = NoTask /\ tasks_alive = 0)
    /\ [][token_info = NoToken /\ token_info' # NoToken
             => sets_done' = sets_done + 1]_vars

\* The credential with a scheduled refresh was cleared while the exchange of a
\* caller was in flight; the time of the scheduled refresh has passed and the
\* exchange has been answered 200: nothing is stored.
C28_Witness ==
    /\ token_info = NoToken
    /\ auth_last = Raised("refresh_done", "AuthenticationError", "internal")
    /\ now >= 3300
    /\ sets_done = 0
    /\ exchanges = 1

\* C29: while a bearer credential without expires_at is stored, the validity
\* check is true whatever the time, and no refresh task is alive.
C29_NoExpiryNeverExpires ==
    token_info.token_type = "bearer" /\ token_info.expires_at = None
        => /\ is_token_valid(token_info, now)
           /\ ~is_token_valid_raises(token_info)
           /\ refresh_task = NoTask
           /\ tasks_alive = 0

\* An hour after the bearer credential without expires_at was stored,
\* ensure_valid_token() returns it, without an exchange.
C29_Witness ==
    /\ token_info.token_type = "bearer"
    /\ token_info.expires_at = None
    /\ now >= 3600
    /\ auth_last = Did("ensure_valid_token", TRUE, token_info.access_token)
    /\ exchanges = 0

\* The exchange of the scheduled refresh fails in this step (transport
\* failure or a status other than 200).
AutoRefreshFailed ==
    /\ refresh_task.status = "posting"
    /\ refresh_task'.status # "posting"
    /\ auth_last'.op = "auto_refresh_done"
    /\ auth_last'.fault \in {"transport", "status"}

\* C35: when the exchange of the scheduled refresh fails, the stored
\* credential stays and no task is left, asleep or running; and a task comes to
\* life where there was none only by set_tokens() of the application or by a
\* refresh_token() of a caller that succeeds.
C35_FailedAutoRefreshEnds ==
    /\ [][AutoRefreshFailed =>
             /\ token_info' = token_info
             /\ refresh_task' = NoTask
             /\ tasks_alive' = 0]_vars
    /\ [][tasks_alive = 0 /\ tasks_alive' > 0 =>
             \/ sets_done' = sets_done + 1
             \/ /\ auth_last'.op \in {"refresh_done", "ensure_refresh_done"}
                /\ auth_last'.ok]_vars

\* The scheduled refresh of the configured credential fired on time and its
\* exchange failed: the credential is still stored, no task is alive.
C35_Witness ==
    /\ auth_last = Raised("auto_refresh_done", "AuthenticationError", "transport")
    /\ token_info = TokenInfo("bearer", 0, 1, 3600)
    /\ now >= 3300
    /\ refresh_task = NoTask
    /\ tasks_alive = 0

\* the refresh_token() of request p returns (_execute_request, lines 234-236)
RequestRefreshReturns(p) ==
    /\ req[p].pc = "refreshing"
    /\ req'[p].pc = "http2"

\* C36: a 401-triggered refresh exchange that completes successfully stores
\* its result whatever credential is stored by then, so one that started before
\* a set(c) and completes after it replaces c, and the call is sent again with
\* the result; set() leaves every request and its exchange in flight, ending
\* only the scheduled background task.
C36_LastWriteWins ==
    /\ [][\A p \in Requesters :
             RequestRefreshReturns(p) =>
                /\ token_info'.access_token = exchanges
                /\ token_info'.refresh_token = token_info.refresh_token
                /\ req'[p].header = get_auth_header(token_info')]_vars
    /\ [][sets_done' = sets_done + 1 =>
             /\ req' = req
             /\ refresh_call' = refresh_call
             /\ exchanges' = exchanges
             /\ tasks_alive' = create_task(refresh_task', 0)]_vars

\* The exchange of request 1 started before the only set() and returned after
\* it: the credential stored is the result of the exchange.
C36_Witness ==
    /\ req[1].pc = "http2"
    /\ req[1].sets_seen = 0
    /\ sets_done = 1
    /\ exchanges = 1
    /\ token_info.access_token = 1
    /\ auth_last = Did("refresh_done", TRUE, 1)

LimiterInit ==
    /\ now = 0
    /\ BreakerIdle
    /\ LimiterIdle
    /\ AuthIdle
    /\ ReqIdle

LimiterNext ==
    \/ \E p \in Callers : AcquireCall(p)
    \/ \E p \in Callers : LockGranted(p)
    \/ \E p \in Callers : SleepDone(p)
    \/ LimiterAdvance

SpecLimiter == LimiterInit /\ [][LimiterNext]_vars

\* asyncio.sleep, line 100: time passes until the sleep of the caller that
\* holds the lock is over.
LimiterWake ==
    /\ \E p \in Callers :
          /\ rl_call[p].pc = "sleeping"
          /\ now < rl_call[p].wake
          /\ now' = rl_call[p].wake
    /\ UNCHANGED <<breakerVars, limiterVars, authVars, reqVars>>

LimiterFairNext ==
    \/ LimiterNext
    \/ LimiterWake

\* The limiter on a running event loop: time advances to the end of a sleep,
\* the sleeper is resumed, and a released asyncio.Lock wakes its first waiter.
SpecLimiterFair ==
    /\ LimiterInit
    /\ [][LimiterFairNext]_vars
    /\ WF_vars(LimiterWake)
    /\ \A p \in Callers : WF_vars(SleepDone(p)) /\ WF_vars(LockGranted(p))

\* The breaker a request may find: new, one failure short of opening, or open.
BreakersMet ==
    { CircuitBreakerInit,
      [state |-> "closed", failure_count |-> failure_threshold - 1, last_failure_time |-> 0],
      [state |-> "open", failure_count |-> failure_threshold, last_failure_time |-> 0] }

\* The credentials the requests run with: without expiry or already past
\* expires_at - 5 min at construction, so no refresh is scheduled.
RequestTokens ==
    { TokenInfo("api_key", 0, None, None),
      TokenInfo("bearer", 0, 1, None),
      TokenInfo("bearer", 0, None, None),
      TokenInfo("bearer", 0, 1, 30),
      TokenInfo("bearer", 0, None, 30) }

RequestInit ==
    /\ now = 0
    /\ circuit_breaker \in BreakersMet
    /\ cb_call = [p \in Callers |-> Idle]
    /\ cb_last = NoEvent
    /\ cb_consec = 0
    /\ LimiterAbsent
    /\ \E ti \in RequestTokens : Construct(ti, 0)
    /\ refresh_call = [p \in Callers |-> NoCall]
    /\ sets_done = 0
    /\ exchanges = 0
    /\ last_exchange = NoExchange
    /\ auth_last = Did("init", TRUE, None)
    /\ ReqIdle

RequestNext ==
    \/ \E p \in Requesters : make_request(p)
    \/ \E p \in Requesters, o \in Outcomes : http1_done(p, o)
    \/ \E p \in Requesters, a \in RefreshAnswers : request_refresh_done(p, a)
    \/ \E p \in Requesters, o \in Outcomes : http2_done(p, o)
    \/ clear_tokens /\ AuthFrame
    \/ RequestAdvance

SpecRequest == RequestInit /\ [][RequestNext]_vars

\* The credentials of the requests followed to their end: one that cannot be
\* refreshed and one that can.
FairTokens ==
    { TokenInfo("api_key", 0, None, None),
      TokenInfo("bearer", 0, 1, None) }

\* What the transport does to the requests followed to their end: a success,
\* a 401, a server error, a timeout.
FairOutcomes ==
    {Response(200), Response(401), Response(503), [kind |-> "timeout", status |-> None]}

RequestFairInit ==
    /\ now = 0
    /\ circuit_breaker \in BreakersMet
    /\ cb_call = [p \in Callers |-> Idle]
    /\ cb_last = NoEvent
    /\ cb_consec = 0
    /\ LimiterAbsent
    /\ \E ti \in FairTokens : Construct(ti, 0)
    /\ refresh_call = [p \in Callers |-> NoCall]
    /\ sets_done = 0
    /\ exchanges = 0
    /\ last_exchange = NoExchange
    /\ auth_last = Did("init", TRUE, None)
    /\ ReqIdle

RequestFairNext ==
    \/ \E p \in Requesters : make_request(p)
    \/ \E p \in Requesters, o \in FairOutcomes : http1_done(p, o)
    \/ \E p \in Requesters, a \in RefreshAnswers : request_refresh_done(p, a)
    \/ \E p \in Requesters, o \in FairOutcomes : http2_done(p, o)
    \/ RequestAdvance

\* The requests on a running event loop with a transport whose exchanges
\* terminate: every HTTP call and every refresh exchange is answered or fails,
\* and tenacity's loop goes on after its sleep.
SpecRequestFair ==
    /\ RequestFairInit
    /\ [][RequestFairNext]_vars
    /\ WF_vars(RequestAdvance)
    /\ \A p \in Requesters :
          /\ WF_vars(req[p].pc = "backoff" /\ make_request(p))
          /\ WF_vars(\E o \in FairOutcomes : http1_done(p, o))
          /\ WF_vars(\E a \in RefreshAnswers : request_refresh_done(p, a))
          /\ WF_vars(\E o \in FairOutcomes : http2_done(p, o))

\* The credentials of the requests that race with set_tokens: refreshable,
\* with a refresh scheduled at construction or without expiry.
RaceTokens ==
    { TokenInfo("bearer", 0, 1, 3600),
      TokenInfo("bearer", 0, 1, None) }

\* What the transport does to the requests that race with set_tokens.
RaceOutcomes ==
    {Response(200), Response(401), [kind |-> "timeout", status |-> None]}

RaceInit ==
    /\ now = 0
    /\ BreakerIdle
    /\ LimiterAbsent
    /\ \E ti \in RaceTokens : Construct(ti, 0)
    /\ refresh_call = [p \in Callers |-> NoCall]
    /\ sets_done = 0
    /\ exchanges = 0
    /\ last_exchange = NoExchange
    /\ auth_last = Did("init", TRUE, None)
    /\ ReqIdle

\* Requests of the client while the application calls set_tokens.
RaceNext ==
    \/ \E p \in Requesters : make_request(p)
    \/ \E p \in Requesters, o \in RaceOutcomes : http1_done(p, o)
    \/ \E p \in Requesters, a \in RefreshAnswers : request_refresh_done(p, a)
    \/ \E p \in Requesters, o \in RaceOutcomes : http2_done(p, o)
    \/ \E ti \in GivenTokens : set_tokens(ti) /\ AuthFrame

SpecRefreshRace == RaceInit /\ [][RaceNext]_vars

\* --------------------------------------------------------- HttpClient: claims

\* C5 as stated: a request() answered 401 while a refreshable credential is
\* stored makes exactly one refresh exchange and exactly one retried HTTP call.
C5_AsStated ==
    \A p \in Requesters :
        req[p].pc = "done" /\ req[p].saw401 /\ req[p].refreshable
            => req[p].refreshes = 1 /\ req[p].http_calls = 2

\* C5, amended: such a request() makes exactly one refresh exchange, and
\* exactly one retried HTTP call when that exchange succeeds, none when it fails.
C5_OneRefreshOneRetry ==
    \A p \in Requesters :
        req[p].pc = "done" /\ req[p].saw401 /\ req[p].refreshable
            => /\ req[p].refreshes = 1
               /\ req[p].http_calls = IF req[p].refresh_ok = "ok" THEN 2 ELSE 1

C5_Witness ==
    \E p \in Requesters :
        /\ req[p].pc = "done"
        /\ req[p].saw401
        /\ req[p].refresh_ok = "ok"
        /\ req[p].http_calls = 2
        /\ exchanges = 1

\* C6: when request() receives 401 and the refresh it triggers fails, the
\* caller gets an AuthenticationError and no further HTTP call is made.
C6_AuthenticationError ==
    \A p \in Requesters :
        req[p].pc = "done" /\ req[p].saw401 /\ req[p].refresh_ok = "failed"
            => /\ ~req[p].result.ok
               /\ req[p].result.exc.class = "AuthenticationError"
               /\ req[p].http_calls = 1

\* C7: a connection failure on the first two attempts and a success on the
\* third make request() return the result after exactly 3 HTTP attempts: a
\* request whose first attempt met a connection failure has made a second one
\* when it ends, after a second failure a third one, and returns its success.
C7_RetriesNetworkFailures ==
    \A p \in Requesters :
        LET t == req[p].tried IN
        req[p].pc = "done" /\ Len(t) >= 1 /\ t[1].kind = "network"
            => /\ Len(t) >= 2
               /\ (t[2].kind = "network"
                      => Len(t) = 3 /\ (is_success(t[3]) => req[p].result.ok))

\* The attempt's HTTP call ended in a kind the claim calls retryable: a 5xx
\* response or a transport timeout.
RetryableOutcome(o) ==
    \/ o.kind = "timeout"
    \/ o.kind = "response" /\ o.status >= 500

\* C12: a request() whose every attempt fails with a retryable kind (5xx
\* response, timeout, or the open breaker's rejection) ends only after exactly
\* `retries` attempts, with the error of that kind.
C12_RetriesUntilExhausted ==
    \A p \in Requesters :
        /\ req[p].pc = "done"
        /\ ~req[p].result.ok
        /\ \A i \in 1..Len(req[p].tried) : RetryableOutcome(req[p].tried[i])
        => /\ req[p].attempt = retries
           /\ req[p].result.exc.class \in {"ServerError", "TimeoutError", "CircuitBreakerError"}

\* The statuses whose kinds are not retryable.
NonRetryableStatuses == {400, 403, 404, 429}

\* C13: a request() whose first attempt gets a 400, 403, 404 or 429 response
\* makes exactly one breaker call and one HTTP exchange and ends in an error.
C13_NoRetryOfNonRetryable ==
    \A p \in Requesters :
        /\ req[p].pc = "done"
        /\ Len(req[p].tried) >= 1
        /\ req[p].tried[1].kind = "response"
        /\ req[p].tried[1].status \in NonRetryableStatuses
        => /\ req[p].attempt = 1
           /\ req[p].http_calls = 1
           /\ Len(req[p].tried) = 1
           /\ ~req[p].result.ok

C13_Witness ==
    \E p \in Requesters :
        /\ req[p].pc = "done"
        /\ req[p].tried = <<Response(404)>>
        /\ req[p].attempt = 1
        /\ ~req[p].result.ok
        /\ circuit_breaker.failure_count > 0

\* The kind the classifier's table gives a status.
C14_Kind(status) ==
    CASE status = 400 -> "ValidationError"
      [] status = 401 -> "AuthenticationError"
      [] status = 403 -> "AuthorizationError"
      [] status = 404 -> "NotFoundError"
      [] status = 429 -> "RateLimitError"
      [] status >= 500 -> "ServerError"
      [] OTHER -> "BackstageSDKError"

\* C14: the error request() raises for a response with status s >= 400 has the
\* kind of the table and carries s; a transport timeout gives TimeoutError, a
\* connection failure NetworkError (requests with a single HTTP exchange).
C14_ClassifiedByTable ==
    \A p \in Requesters :
        req[p].pc = "done" /\ req[p].http_calls = 1 /\ Len(req[p].tried) = 1
        => LET o == req[p].tried[1]
               e == req[p].result.exc
           IN CASE o.kind = "timeout" -> e.class = "TimeoutError"
                [] o.kind = "network" -> e.class = "NetworkError"
                [] o.kind = "response" /\ o.status >= 400 ->
                       e.class = C14_Kind(o.status) /\ e.status = o.status
                [] OTHER -> req[p].result.ok

\* C15: every failure that leaves request() is an SDK error, and one that
\* comes from an HTTP response carries the status of that response.
C15_TypedWithStatus ==
    \A p \in Requesters :
        req[p].pc = "done" /\ ~req[p].result.ok
        => /\ req[p].result.exc.class \in SDKErrorClasses
           /\ (/\ req[p].http_calls = 1
               /\ Len(req[p].tried) = 1
               /\ req[p].tried[1].kind = "response"
               => req[p].result.exc.status = req[p].tried[1].status)

\* C18: when the stored bearer credential is invalid and has a refresh token,
\* the first HTTP call of a request() carries a refreshed credential, not the
\* one found invalid.
C18_RefreshedBeforeFirstCall ==
    \A p \in Requesters :
        req[p].pc = "http1" /\ req[p].attempt = 1 /\ req[p].cred = "refresh"
            => /\ req[p].header.scheme = "Bearer"
               /\ req[p].header.value # req[p].found

\* C19: when the stored bearer credential is expired and cannot be refreshed,
\* the request is sent with no auth header.
C19_NoHeaderWhenUnresolved ==
    \A p \in Requesters :
        req[p].pc = "http1" /\ req[p].attempt = 1 /\ req[p].cred = "expired"
            => req[p].header = NoHeader

\* The kinds of error the classification names, as classes of the SDK.
RetryableKinds == {"ServerError", "TimeoutError", "NetworkError", "CircuitBreakerError"}
OtherKinds ==
    {"AuthenticationError", "AuthorizationError", "NotFoundError", "ValidationError",
     "RateLimitError", "ConfigurationError"}

\* C24: is_retryable_error holds of an error of kind Server, Timeout, Network
\* or CircuitBreaker, and does not hold (it is False or None) of an error of
\* kind Authentication, Authorization, NotFound, Validation, RateLimit or
\* Configuration; so it is for each kind's error as its class builds it and
\* for the error of such a kind that a request() has raised.
C24_RetryableKinds ==
    /\ \A class \in RetryableKinds : is_retryable_error(construct(class)) = "True"
    /\ \A class \in OtherKinds : is_retryable_error(construct(class)) # "True"
    /\ \A p \in Requesters :
          req[p].pc = "done" /\ ~req[p].result.ok
              /\ req[p].result.exc.class \in RetryableKinds \cup OtherKinds
          => (is_retryable_error(req[p].result.exc) = "True"
                  <=> req[p].result.exc.class \in RetryableKinds)

\* A request() has raised the error of a transport failure, which is retryable.
C24_Witness ==
    \E p \in Requesters :
        /\ req[p].pc = "done"
        /\ req[p].result.exc.class = "NetworkError"
        /\ is_retryable_error(req[p].result.exc) = "True"

\* The waits of tenacity's loop for each value of retry_delay.
BackoffInit ==
    /\ now = 0
    /\ BreakerIdle
    /\ LimiterIdle
    /\ AuthIdle
    /\ req = [p \in Requesters |-> NoRequest]
    /\ req_started = 0
    /\ \E m \in RetryDelays : retry_state = NoRetryState(m)

BackoffNext == next_wait

SpecBackoff == BackoffInit /\ [][BackoffNext]_vars

LimitedBreakers ==
    { CircuitBreakerInit,
      [state |-> "open", failure_count |-> failure_threshold, last_failure_time |-> 0] }

\* The bucket a limited request may find: full, or emptied by earlier requests.
LimitersMet ==
    { RateLimiterInit(0),
      [tokens |-> 0, last_update |-> 0] }

\* The credentials the limited requests run with.
LimitedTokens ==
    { TokenInfo("api_key", 0, None, None),
      TokenInfo("bearer", 0, 1, None) }

\* What the transport does with the HTTP calls of the limited requests.
LimitedOutcomes == {Response(200), Response(401), [kind |-> "network", status |-> None]}

\* What /auth/refresh answers to the limited requests.
LimitedAnswers == {RefreshAnswer("none", None, None), RefreshAnswer("transport", None, None)}

LimitedInit ==
    /\ now = 0
    /\ circuit_breaker \in LimitedBreakers
    /\ cb_call = [p \in Callers |-> Idle]
    /\ cb_last = NoEvent
    /\ cb_consec = 0
    /\ rate_limiter \in LimitersMet
    /\ lock_holder = 0
    /\ lock_waiters = <<>>
    /\ rl_call = [p \in Callers |-> NoAcquire]
    /\ admit_log = <<>>
    /\ rl_started = 0
    /\ \E ti \in LimitedTokens : Construct(ti, 0)
    /\ refresh_call = [p \in Callers |-> NoCall]
    /\ sets_done = 0
    /\ exchanges = 0
    /\ last_exchange = NoExchange
    /\ auth_last = Did("init", TRUE, None)
    /\ req = [p \in Callers |-> NoRequest]
    /\ req_started = 0
    /\ retry_state = NoRetryState(retry_delay)

\* The clock advances, never past the end of a sleep in acquire().
LimitedAdvance ==
    /\ \E t \in {now + d : d \in RequestSteps}
                  \cup {rl_call[p].wake : p \in {q \in Callers : rl_call[q].pc = "sleeping"}} :
          /\ t > now
          /\ t <= MaxTime
          /\ \A p \in Callers : rl_call[p].pc = "sleeping" => t <= rl_call[p].wake
          /\ now' = t
    /\ UNCHANGED <<breakerVars, limiterVars, authVars, reqVars>>

LimitedNext ==
    \/ \E p \in Callers : request_acquire(p)
    \/ \E p \in Callers : LockGranted(p)
    \/ \E p \in Callers : SleepDone(p)
    \/ \E p \in Callers : make_request(p)
    \/ \E p \in Callers, o \in LimitedOutcomes : http1_done(p, o)
    \/ \E p \in Callers, a \in LimitedAnswers : request_refresh_done(p, a)
    \/ \E p \in Callers, o \in LimitedOutcomes : http2_done(p, o)
    \/ LimitedAdvance

SpecLimited == LimitedInit /\ [][LimitedNext]_vars

\* The request of caller p is inside its acquire().
Acquiring(p) == req[p].pc = "acquire" /\ rl_call[p].pc # "idle"

\* C30: with a rate limiter, the admissions are as many as the requests that
\* have got past their acquire(), one for each, whatever the request then did
\* (HTTP calls of the 401 retry, rejection by the open breaker); and a
\* request inside acquire() has sent no HTTP call and has not entered the
\* breaker.
C30_OneAdmissionPerRequest ==
    /\ Len(admit_log) = req_started - Cardinality({p \in Callers : Acquiring(p)})
    /\ \A p \in Callers :
          req[p].pc = "acquire" =>
              /\ req[p].http_calls = 0
              /\ req[p].attempt = 0
              /\ req[p].tried = <<>>

\* Two requests were admitted: the open breaker rejected one, the other sent
\* two HTTP calls, the second after the refresh that a 401 started.
C30_Witness ==
    /\ Len(admit_log) = 2
    /\ req_started = 2
    /\ \E p, q \in Callers :
          /\ req[p].pc = "done"
          /\ req[p].result.exc.class = "CircuitBreakerError"
          /\ req[p].http_calls = 0
          /\ req[q].pc = "done"
          /\ req[q].http_calls = 2
          /\ req[q].refreshes = 1

\* -------------------------------------------------------- RateLimiter: claims

\* C3: in every interval, the acquire() calls that return in it are at most
\* capacity + refill_rate * (length of the interval): for any two admissions i
\* before j, j - i + 1 <= burst_size + (requests / 60) * (t_j - t_i).
C3_AdmissionBound ==
    \A i, j \in 1..Len(admit_log) :
        i <= j =>
            (j - i + 1) * TokenScale
                <= burst_size * TokenScale
                   + rate_limit_requests * (admit_log[j] - admit_log[i])

\* C4: 0 <= tokens <= burst_size in every state.
C4_TokensInRange ==
    /\ 0 <= rate_limiter.tokens
    /\ rate_limiter.tokens <= burst_size * TokenScale

C4_Witness ==
    /\ Len(admit_log) > burst_size
    /\ rate_limiter.tokens = 0
    /\ rate_limiter.last_update < now
    /\ lock_holder = 0

\* An acquire() returns in this step without having slept.
AdmittedAtOnce ==
    /\ Len(admit_log') = Len(admit_log) + 1
    /\ \A p \in Callers : rl_call[p].pc # "sleeping"

\* C23: the callers inside the locked part of acquire() are at most one, the
\* holder of the lock, whatever the interleaving; and when a caller is
\* admitted without waiting while the bucket holds at least 1 and less than 2
\* tokens, less than 1 token is left for a caller that decides at that
\* instant, which therefore waits.
C23_OneDecidesAtATime ==
    /\ [](\A p \in Callers :
             /\ rl_call[p].pc = "sleeping" <=> lock_holder = p
             /\ rl_call[p].pc = "queued" <=> \E i \in 1..Len(lock_waiters) : lock_waiters[i] = p)
    /\ [][AdmittedAtOnce /\ refill(rate_limiter, now).tokens < 2 * TokenScale
             => /\ refill(rate_limiter', now').tokens < TokenScale
                /\ \A q \in Callers : rl_call'[q].pc # "sleeping"
                                          \/ rl_call'[q].wake > now']_vars

\* One caller was admitted from a bucket of less than 2 tokens and the other,
\* deciding at the same instant, sleeps in the locked part, while a further
\* call is queued on the lock.
C23_Witness ==
    /\ lock_holder # 0
    /\ rl_call[lock_holder].pc = "sleeping"
    /\ rl_call[lock_holder].wake > now
    /\ lock_waiters # <<>>
    /\ Len(admit_log) >= 2
    /\ admit_log[Len(admit_log)] = rate_limiter.last_update
    /\ rate_limiter.tokens < TokenScale

\* ------------------------------------------------- CircuitBreaker: behaviour

BreakerSteps == {30}

\* The clock advances.
BreakerAdvance ==
    /\ \E d \in BreakerSteps : now + d <= MaxTime /\ now' = now + d
    /\ UNCHANGED <<breakerVars, limiterVars, authVars, reqVars>>

BreakerInit ==
    /\ now = 0
    /\ circuit_breaker = CircuitBreakerInit
    /\ cb_call = [p \in Callers |-> Idle]
    /\ cb_last = NoEvent
    /\ cb_consec = 0
    /\ LimiterIdle
    /\ AuthIdle
    /\ ReqIdle

BreakerNext ==
    \/ \E p \in Callers : CallBegin(p)
    \/ \E p \in Callers : CallReturn(p)
    \/ \E p \in Callers : CallRaise(p)
    \/ ResetCircuitBreaker
    \/ BreakerAdvance

SpecBreaker == BreakerInit /\ [][BreakerNext]_vars

\* --------------------------------------------------- CircuitBreaker: claims

\* C1: once failure_threshold wrapped invocations in a row have raised, the
\* breaker is open right after the last of them; and a call that arrives while
\* the breaker is open and fewer than timeout seconds have passed since
\* last_failure_time raises CircuitBreakerError and the wrapped function is not
\* started.
C1_OpenFailsFast ==
    /\ (cb_last.kind = "raised" /\ cb_consec >= failure_threshold
            => circuit_breaker.state = "open")
    /\ (cb_last.kind \in {"rejected", "invoked"} /\ cb_last.pre = "open" /\ cb_last.early
            => /\ cb_last.kind = "rejected"
               /\ cb_call[cb_last.proc].pc = "idle"
               /\ circuit_breaker.state = "open")

C1_Witness ==
    /\ cb_last.kind = "rejected"
    /\ cb_last.early
    /\ cb_consec >= failure_threshold
    /\ circuit_breaker.state = "open"

\* The three parts of C2 for one call p: its arrival, its success, its failure.
ProbeStarts ==
    cb_last.kind \in {"rejected", "invoked"} /\ cb_last.pre = "open" /\ cb_last.late
        => /\ cb_last.kind = "invoked"
           /\ circuit_breaker.state = "half_open"
           /\ cb_call[cb_last.proc].pc = "running"

\* C2 as stated: the call that found the breaker open after timeout moves it to
\* half_open and runs; when it succeeds the breaker is closed with
\* failure_count = 0, when it fails the breaker is open.
C2_AsStated ==
    /\ ProbeStarts
    /\ (cb_last.kind = "returned" /\ cb_last.probe
            => circuit_breaker.state = "closed" /\ circuit_breaker.failure_count = 0)
    /\ (cb_last.kind = "raised" /\ cb_last.probe
            => circuit_breaker.state = "open")

\* C2, amended: the same, for a probe during which no other call completed and
\* no reset_circuit_breaker ran.
C2_ProbeAlone ==
    /\ ProbeStarts
    /\ (cb_last.kind = "returned" /\ cb_last.probe /\ cb_last.alone
            => circuit_breaker.state = "closed" /\ circuit_breaker.failure_count = 0)
    /\ (cb_last.kind = "raised" /\ cb_last.probe /\ cb_last.alone
            => circuit_breaker.state = "open")

C2_Witness ==
    /\ cb_last.kind = "returned"
    /\ cb_last.probe
    /\ cb_last.alone
    /\ cb_last.pre = "half_open"
    /\ circuit_breaker.state = "closed"

\* The wrapped invocation of caller p ends in this step.
Completes(p) == cb_call[p].pc = "running" /\ cb_call'[p].pc = "idle"

\* The breaker is reset in this step: by reset_circuit_breaker, or by a wrapped
\* invocation that returns while the breaker is half open.
ResetStep ==
    \/ cb_last'.kind = "reset" /\ \A p \in Callers : ~Completes(p)
    \/ \E p \in Callers :
          Completes(p) /\ cb_last'.kind = "returned" /\ circuit_breaker.state = "half_open"

\* A wrapped invocation raises in this step.
RaiseStep == \E p \in Callers : Completes(p) /\ cb_last'.kind = "raised"

\* C27: failure_count counts the wrapped invocations that have raised since
\* the last reset, each once, however the calls interleave: a reset sets it to
\* 0, an invocation that raises adds 1 to it (whatever it raised) and sets
\* last_failure_time to the time of that failure, and no other step changes
\* either.
C27_FailuresCounted ==
    [][/\ ResetStep => circuit_breaker'.failure_count = 0
       /\ RaiseStep =>
             /\ circuit_breaker'.failure_count = circuit_breaker.failure_count + 1
             /\ circuit_breaker'.last_failure_time = now
       /\ ~ResetStep /\ ~RaiseStep =>
             /\ circuit_breaker'.failure_count = circuit_breaker.failure_count
             /\ circuit_breaker'.last_failure_time = circuit_breaker.last_failure_time]_vars

\* Two calls overlapped and both have raised: the count is 2 and the
\* time is that of the second failure.
C27_Witness ==
    /\ cb_last.kind = "raised"
    /\ ~cb_last.alone
    /\ circuit_breaker.failure_count = 2
    /\ circuit_breaker.last_failure_time = now
    /\ now > 0
    /\ \A p \in Callers : cb_call[p].pc = "idle"

\* C31: the breaker is closed exactly when failure_count is below
\* failure_threshold, however calls and resets interleave.
C31_ClosedIffBelowThreshold ==
    circuit_breaker.state = "closed"
        <=> circuit_breaker.failure_count < failure_threshold

\* A call that had entered before the breaker opened raised after it, so the
\* count went past the threshold; the breaker is half open now.
C31_Witness ==
    /\ circuit_breaker.state = "half_open"
    /\ circuit_breaker.failure_count > failure_threshold
    /\ \E p \in Callers : cb_call[p].pc = "running"

\* A wrapped invocation returns in this step.
ReturnStep == \E p \in Callers : Completes(p) /\ cb_last'.kind = "returned"

\* C32: a wrapped invocation that returns while the breaker is closed leaves
\* the breaker as it is, failure_count included; and the invocation whose
\* failure brings failure_count to failure_threshold opens the breaker,
\* whether or not the failures came in a row.
C32_FailuresAccumulate ==
    [][/\ ReturnStep /\ circuit_breaker.state = "closed"
             => circuit_breaker' = circuit_breaker
       /\ RaiseStep /\ circuit_breaker.failure_count + 1 >= failure_threshold
             => circuit_breaker'.state = "open"]_vars

\* The breaker has just opened on its fifth failure since the reset, and a
\* success came between the failures.
C32_Witness ==
    /\ cb_last.kind = "raised"
    /\ cb_last.pre = "closed"
    /\ circuit_breaker.state = "open"
    /\ circuit_breaker.failure_count = failure_threshold
    /\ cb_consec > 0
    /\ cb_consec < failure_threshold

\* A call is rejected in this step.
RejectStep == cb_last'.kind = "rejected" /\ cb_last' # cb_last

\* C33: a call that the open breaker rejects leaves state, failure_count and
\* last_failure_time as they were.
C33_RejectionLeavesBreaker ==
    [][RejectStep => circuit_breaker' = circuit_breaker]_vars

\* A call was rejected some time after the failure that opened the breaker,
\* and last_failure_time is still the time of that failure.
C33_Witness ==
    /\ cb_last.kind = "rejected"
    /\ circuit_breaker.state = "open"
    /\ circuit_breaker.failure_count = failure_threshold
    /\ now > circuit_breaker.last_failure_time
    /\ circuit_breaker.last_failure_time > 0

\* C34: a call is rejected only while the breaker is open, so every call that
\* arrives while it is half open invokes the wrapped function; an invocation
\* that returns while the breaker is open (another probe has failed) does not
\* close it; and an invocation that raises after a reset (another probe has
\* succeeded) sets failure_count to 1 and leaves the breaker closed.
C34_NoSingleProbe ==
    [][/\ RejectStep => circuit_breaker.state = "open"
       /\ ReturnStep /\ circuit_breaker.state = "open"
             => circuit_breaker' = circuit_breaker
       /\ RaiseStep /\ circuit_breaker.state = "closed"
                    /\ circuit_breaker.failure_count = 0
             => /\ circuit_breaker'.state = "closed"
                /\ circuit_breaker'.failure_count = 1]_vars

\* Two probes were in flight; one returned and closed the breaker, then the
\* one that had made it half open raised: the breaker is closed with one
\* failure.
C34_Witness ==
    /\ cb_last.kind = "raised"
    /\ cb_last.probe
    /\ cb_last.pre = "closed"
    /\ circuit_breaker.state = "closed"
    /\ circuit_breaker.failure_count = 1

\* C37: every acquire() call eventually returns; a caller that waits holds
\* the lock for the whole wait, and the callers queued behind it are admitted
\* one after another, in the order they queued.
C37_AcquireReturns ==
    /\ \A p \in Callers : (rl_call[p].pc # "idle") ~> (rl_call[p].pc = "idle")
    /\ [](\A p \in Callers : rl_call[p].pc = "sleeping" => lock_holder = p)
    /\ [][\A p \in Callers :
             rl_call[p].pc = "queued" /\ rl_call'[p].pc # "queued" =>
                /\ lock_holder = 0
                /\ Head(lock_waiters) = p]_vars

\* Four calls against a bucket of two: the third slept 30 s holding the lock
\* and has returned, and the fourth, which queued behind it during the sleep,
\* is the first in line for the lock that is free now.
C37_Witness ==
    /\ rl_started = 4
    /\ admit_log = <<0, 0, 30>>
    /\ now = 30
    /\ lock_holder = 0
    /\ \E p \in Callers :
          /\ lock_waiters = <<p>>
          /\ rl_call[p].pc = "queued"
          /\ \A q \in Callers \ {p} : rl_call[q].pc = "idle"

\* C38: every request() that has started ends, with a response or an
\* exception; it enters the breaker at most retries times, and what it has
\* sent is at most two HTTP calls and one refresh exchange per entry.
C38_RequestTerminates ==
    /\ \A p \in Requesters :
          (req[p].pc \notin {"idle", "done"}) ~> (req[p].pc = "done")
    /\ [](\A p \in Requesters :
            /\ req[p].attempt <= retries
            /\ req[p].http_calls <= 2 * req[p].attempt
            /\ req[p].refreshes <= req[p].attempt
            /\ req[p].refreshes <= req[p].http_calls
            /\ req[p].pc = "done" =>
                  \/ req[p].result.ok /\ req[p].result.exc = NoExc
                  \/ ~req[p].result.ok /\ req[p].result.exc # NoExc)

\* A request that was answered 401, refreshed the credential and sent the call
\* again has returned: one breaker call, two HTTP calls, one refresh exchange.
C38_Witness ==
    \E p \in Requesters :
        /\ req[p].pc = "done"
        /\ req[p].result.ok
        /\ req[p].attempt = 1
        /\ req[p].http_calls = 2
        /\ req[p].refreshes = 1

====
